---- MODULE Spec2Model ----
(***************************************************************************)
(* The four recorded end-to-end scenarios of testsprite_tests (TC002,      *)
(* TC004, TC006, TC007).  Each file is one coroutine run_test(): a try     *)
(* block holding a straight-line sequence of awaited browser operations,   *)
(* a finally block closing context, browser and engine, and the module     *)
(* level call asyncio.run(run_test()).  The model interprets each file's    *)
(* statement list one statement per step; every awaited operation may      *)
(* return or raise, as the automation engine decides.                      *)
(***************************************************************************)
EXTENDS Integers, Sequences, FiniteSets, TLC

\* ---------------------------------------------------------------- bounds
\* page.frames holds the main frame plus up to MaxFrames - 1 child frames
MaxFrames == 2
\* a click may open at most this many further pages in the context
MaxPopups == 1
\* the number of calls of run_test in progress at once
NumRuns == 2

\* ------------------------------------------------------ program constants
DefaultTimeout == 5000
GotoTimeout == 10000
LoadStateTimeout == 3000
SettleMs == 3000
ClickTimeout == 5000
LongAssertTimeout == 30000
ShortAssertTimeout == 1000
\* a call that passes no timeout argument
NoTimeout == 0

None == 0

Scenarios == {"TC002", "TC004", "TC006", "TC007"}

\* ------------------------------------------------------- statement lists
\* One statement: source line, kind, argument (url, selector, text, ...),
\* explicit timeout (NoTimeout when the call gives none) and a modifier
\* (wait_until of a goto, enclosing handler of the statement).
Op(ln, k, a, t, w) == [ln |-> ln, k |-> k, a |-> a, t |-> t, w |-> w, v |-> "page"]

Goto(ln, url) == Op(ln, "goto", url, GotoTimeout, "load")
Sleep(ln, s) == [Op(ln, "sleep", "", s * 1000, "") EXCEPT !.v = ""]
WheelIH(ln) == Op(ln, "wheel", "innerHeight", NoTimeout, "")
WheelUp(ln) == Op(ln, "wheel", "-innerHeight", NoTimeout, "")
WheelBy(ln, d) == Op(ln, "wheel", d, NoTimeout, "")
Locate(ln, sel) == [Op(ln, "locate", sel, NoTimeout, "") EXCEPT !.v = "context"]
Settle(ln) == Op(ln, "wait_for_timeout", "", SettleMs, "")
Fill(ln) == [Op(ln, "fill", "test", NoTimeout, "") EXCEPT !.v = "elem"]
Click(ln) == [Op(ln, "click", "", ClickTimeout, "") EXCEPT !.v = "elem"]
LastPage(ln) == [Op(ln, "last_page", "", NoTimeout, "") EXCEPT !.v = "context"]
\* expect(<recv>.locator('text=...')).to_be_visible(timeout=t); h = "reraise"
\* when the call sits in try/except AssertionError: raise AssertionError(...)
ExpectVisible(ln, recv, txt, t, h) == [Op(ln, "expect", txt, t, h) EXCEPT !.v = recv]

\* lines 12-46, identical in the four files
Preamble ==
  << [Op(12, "start", "", NoTimeout, "") EXCEPT !.v = ""],
     [Op(15, "launch", "chromium", NoTimeout, "") EXCEPT !.v = "pw"],
     [Op(26, "new_context", "", NoTimeout, "") EXCEPT !.v = "browser"],
     [Op(27, "set_default_timeout", "", DefaultTimeout, "") EXCEPT !.v = "context"],
     [Op(30, "new_page", "", NoTimeout, "") EXCEPT !.v = "context"],
     Op(33, "goto", "", GotoTimeout, "commit"),
     Op(37, "wait_for_load_state", "domcontentloaded", LoadStateTimeout, "swallow"),
     Op(42, "for_frames", "", NoTimeout, ""),
     [Op(44, "frame_wait", "domcontentloaded", LoadStateTimeout, "swallow") EXCEPT !.v = "frame"] >>

\* (variant: the assertion follows the click on the button directly)
BodyTC002_NoSecondClick ==
  << WheelIH(50), Goto(52, "/sign-up"), Sleep(53, 3),
     Goto(55, "/"), Sleep(56, 3), WheelIH(60),
     Goto(64, "/login"), Sleep(65, 3), WheelIH(69),
     Locate(73, "div/input"), Settle(75), Fill(75),
     Locate(78, "div/div/input"), Settle(80), Fill(80),
     Locate(83, "div/div/button"), Settle(85), Click(85),
     LastPage(98),
     ExpectVisible(100, "frame", "Exclusive Fan Content Access", LongAssertTimeout, "reraise"),
     Sleep(103, 5) >>

BodyTC002 ==
  << WheelIH(50), Goto(52, "/sign-up"), Sleep(53, 3),
     Goto(55, "/"), Sleep(56, 3), WheelIH(60),
     Goto(64, "/login"), Sleep(65, 3), WheelIH(69),
     Locate(73, "div/input"), Settle(75), Fill(75),
     Locate(78, "div/div/input"), Settle(80), Fill(80),
     Locate(83, "div/div/button"), Settle(85), Click(85),
     WheelIH(89),
     Locate(92, "div/a"), Settle(94), Click(94),
     LastPage(98),
     ExpectVisible(100, "frame", "Exclusive Fan Content Access", LongAssertTimeout, "reraise"),
     Sleep(103, 5) >>

BodyTC004 ==
  << Goto(50, "/sign-in"), Sleep(51, 3),
     WheelIH(55), WheelIH(59), WheelUp(62),
     ExpectVisible(67, "page", "Authentication Successful", ShortAssertTimeout, "reraise"),
     Sleep(70, 5) >>

BodyTC006 ==
  << Goto(50, "/sign-in"), Sleep(51, 3), WheelIH(53),
     Goto(55, "/sign-in"), Sleep(56, 3),
     Goto(58, "/onboarding"), Sleep(59, 3),
     Goto(61, ""), Sleep(62, 3),
     Goto(64, "/artist/dashboard"), Sleep(65, 3),
     WheelIH(67), WheelIH(70), WheelIH(73), WheelIH(76), WheelIH(79),
     WheelIH(83), WheelIH(86), WheelIH(89), WheelIH(92),
     Goto(96, "/"), Sleep(97, 3),
     WheelIH(101), WheelIH(104), WheelIH(107), WheelIH(110), WheelIH(113),
     Goto(117, "/signin"), Sleep(118, 3),
     WheelIH(122), WheelIH(125), WheelIH(128), WheelIH(131), WheelIH(134),
     Goto(138, "/fan/dashboard"), Sleep(139, 3),
     Goto(143, "/sign-in"), Sleep(144, 3),
     Goto(148, "/artist/dashboard"), Sleep(149, 3),
     WheelIH(153), WheelIH(156), WheelIH(159), WheelIH(162), WheelIH(165),
     LastPage(169),
     ExpectVisible(170, "frame", "Welcome back", LongAssertTimeout, ""),
     ExpectVisible(171, "frame", "Sign in to your BroLab Fanbase account", LongAssertTimeout, ""),
     Sleep(172, 5) >>

BodyTC007 ==
  << WheelBy(50, "300"), WheelBy(52, "600"),
     Goto(54, "/protected"), Sleep(55, 3), WheelBy(57, "300"),
     Goto(59, "/api/auth/signin"), Sleep(60, 3),
     Goto(62, "/api/auth/signin"), Sleep(63, 3),
     WheelBy(65, "300"),
     WheelIH(67), WheelIH(70), WheelIH(73), WheelIH(76), WheelIH(79),
     WheelIH(82), WheelIH(85), WheelIH(88), WheelIH(91), WheelIH(94),
     Goto(98, "/"), Sleep(99, 3), WheelIH(103), WheelUp(107),
     Goto(111, "/login"), Sleep(112, 3), WheelIH(116),
     Goto(120, "/"), Sleep(121, 3), WheelIH(124),
     Goto(128, "/auth"), Sleep(129, 3),
     Goto(133, "/"), Sleep(134, 3),
     Goto(137, "/sign-in"), Sleep(138, 3),
     Goto(142, "/"), Sleep(143, 3),
     ExpectVisible(148, "page", "User role selection required", ShortAssertTimeout, "reraise"),
     Sleep(151, 5) >>

Script(s) ==
  Preamble \o (CASE s = "TC002" -> BodyTC002
                 [] s = "TC004" -> BodyTC004
                 [] s = "TC006" -> BodyTC006
                 [] s = "TC007" -> BodyTC007)

\* ------------------------------------------------------------------ state
VARIABLES
  scenario,        \* which of the four files is being run
  pc,              \* index of the current statement of the try block
  phase,           \* "try", "close_context", "close_browser", "stop_pw", "exit", "done"
  pw, browser, context, page,   \* the locals of run_test (None or a handle)
  frame, elem,     \* frame = context.pages[-1]; elem = frame.locator(...).nth(0)
  pages,           \* context.pages, in creation order
  defaultTimeout,  \* the context's default timeout (NoTimeout until line 27)
  nframes, frameIdx,   \* the for loop over page.frames (line 42)
  exc,             \* the exception in flight, newest first, then its __context__ chain
  trace,           \* the statements executed so far, with their results
  acquired,        \* the handles acquired, in acquisition order
  closeLog,        \* the close()/stop() calls made, in call order
  finallyEntered,  \* how many times control entered the finally block
  exitStatus,      \* the process's exit status, once asyncio.run has returned or raised
  loadState,       \* how far the page's document has loaded
  runNo,           \* 1 in a first run of the scenario, 2 when it is run again
  first,           \* what the first run met and how it ended, once it is run again
  cpc,             \* concurrent runs: each run's position in its try block
  cphase,          \* concurrent runs: each run's place (try, closing steps, done)
  clocals,         \* concurrent runs: pw, browser, context and page of each call
  live,            \* concurrent runs: the engine objects created and not closed
  touched          \* concurrent runs: which run called or closed which object

vars == << scenario, pc, phase, pw, browser, context, page, frame, elem, pages,
           defaultTimeout, nframes, frameIdx, exc, trace, acquired, closeLog,
           finallyEntered, exitStatus, loadState, runNo, first,
           cpc, cphase, clocals, live, touched >>

\* the variables of one run
runVars == << pc, phase, pw, browser, context, page, frame, elem, pages,
             defaultTimeout, nframes, frameIdx, exc, trace, acquired, closeLog,
             finallyEntered, exitStatus, loadState >>
again == << runNo, first >>
conc == << cpc, cphase, clocals, live, touched >>

locals == << pw, browser, context, page, frame, elem, pages, defaultTimeout, acquired >>
loop == << nframes, frameIdx >>

NotExited == -1

Cur == Script(scenario)[pc]
Last(q) == q[Len(q)]

\* ------------------------------------------------- the engine's answers
\* What an awaited call of each kind can do: return ("ok") or raise.
\* TimeoutError is a subclass of playwright's Error; expect() raises
\* AssertionError when the locator is not visible within the timeout.
Outcomes(op) ==
  CASE op.k \in {"start", "new_context", "new_page", "wheel", "wait_for_timeout"}
         -> {"ok", "Error"}
    [] op.k \in {"launch", "goto", "wait_for_load_state", "frame_wait", "fill", "click"}
         -> {"ok", "TimeoutError", "Error"}
    [] op.k = "expect" -> {"ok", "AssertionError", "Error"}
    [] OTHER -> {"ok"}

EngineErrors == {"TimeoutError", "Error"}

\* The answers open to the call made now.  In a first run every outcome of
\* the call is possible; when the scenario is run again against the same
\* application state, the call is answered as the first run's call at the
\* same position was.
Answers(op) ==
  IF runNo = 2 /\ Len(trace) < Len(first.trace)
  THEN {first.trace[Len(trace) + 1].r} \cap Outcomes(op)
  ELSE Outcomes(op)

\* the results open to a close()/stop() call, in the same way
CloseAnswers ==
  IF runNo = 2 /\ Len(closeLog) < Len(first.closeLog)
  THEN {first.closeLog[Len(closeLog) + 1].r}
  ELSE {"ok", "Error"}

\* the number of frames page.frames can hold, in the same way
FrameCounts ==
  IF runNo = 2 /\ first.nframes > 0 THEN {first.nframes} ELSE 1..MaxFrames

\* ------------------------------------------------------------ exceptions
Exc(kind, ln, at, msg) == [kind |-> kind, ln |-> ln, at |-> at, msg |-> msg]

\* (variant: the final assertion's handler passes instead of raising)
Swallowed_Assertion(op, kind) ==
  (op.w = "swallow" /\ kind \in EngineErrors) \/ kind = "AssertionError"

\* (variant: fill and click sit in a handler that ignores their timeout)
Swallowed_StepTimeout(op, kind) ==
  \/ op.w = "swallow" /\ kind \in EngineErrors
  \/ op.k \in {"fill", "click"} /\ kind = "TimeoutError"

\* (variant: the handlers catch TimeoutError only)
Swallowed_TimeoutOnly(op, kind) == op.w = "swallow" /\ kind = "TimeoutError"

\* (variant: the load-state waits have no handler)
Swallowed_Never(op, kind) == FALSE

\* (variant: every statement sits in a handler that ignores engine errors)
Swallowed_All(op, kind) == kind \in EngineErrors

\* (variant: the two load-state handlers ignore an error only in the first
\* run made of the scenario)
Swallowed_FirstRunOnly(op, kind) ==
  op.w = "swallow" /\ kind \in EngineErrors /\ runNo = 1

\* (variant: an expect() outside any handler records its failure and lets
\* the run go on)
Swallowed_SoftAssert(op, kind) ==
  \/ op.w = "swallow" /\ kind \in EngineErrors
  \/ op.k = "expect" /\ op.w = "" /\ kind = "AssertionError"

\* except async_api.Error: pass   (lines 38-39 and 45-46)
Swallowed(op, kind) == op.w = "swallow" /\ kind \in EngineErrors

\* (variant: every expect sits in the re-raising handler)
Reraised_Always(op, kind) == kind = "AssertionError"

\* except AssertionError: raise AssertionError('Test ... failed: ...')
\* two lines below the expect (TC002 100-102, TC004 67-69, TC007 148-150)
Reraised(op, kind) == op.w = "reraise" /\ kind = "AssertionError"

\* (variant: the new exception drops the one in flight)
Chain_DropContext(new, old) == new

\* An exception raised while another one is in flight (inside an except
\* clause or a finally block) replaces it and keeps it as its __context__.
Chain(new, old) == new \o old

\* The exception leaving statement `at` when its call raises `kind`:
\* <<>> when the enclosing handler swallows it.  An exception raised in an
\* except clause carries the one being handled as its context.
Raised(op, at, kind) ==
  IF Swallowed(op, kind) THEN << >>
  ELSE IF Reraised(op, kind)
       THEN Chain(<< Exc("AssertionError", op.ln + 2, at, "authored") >>,
                  << Exc(kind, op.ln, at, "engine") >>)
       ELSE << Exc(kind, op.ln, at, "engine") >>

\* (variant: set_default_timeout has no effect on locator actions, which
\* keep the engine's built-in default)
EffectiveTimeout_BuiltIn(op) == IF op.t = NoTimeout THEN 30000 ELSE op.t

\* the timeout a call runs under: its timeout argument, else the default
\* the context was given at line 27
EffectiveTimeout(op) == IF op.t = NoTimeout THEN defaultTimeout ELSE op.t

\* first line of the finally block
FinallyLine(s) ==
  CASE s = "TC002" -> 105 [] s = "TC004" -> 72 [] s = "TC006" -> 174 [] s = "TC007" -> 153

\* (variant: the module-level call catches and reports every exception)
ExitCode_AlwaysZero(e) == 0

\* asyncio.run(run_test()) at module level: an exception leaving run_test
\* is unhandled and the interpreter exits with status 1
ExitCode(e) == IF e = << >> THEN 0 ELSE 1

\* the verdict a run ends with, read off what left run_test
Verdict(e) ==
  IF e = << >> THEN "Passed"
  ELSE IF Head(e).kind = "AssertionError" THEN "Failed" ELSE "Errored"

\* ---------------------------------------------------------------- steps
\* nothing is known of an earlier run
NoFirstRun == [trace |-> << >>, closeLog |-> << >>, nframes |-> 0,
               verdict |-> "", exitStatus |-> NotExited]

\* the locals and the control state of run_test when it is called
RunStart ==
  /\ pc = 1
  /\ phase = "try"
  /\ pw = None /\ browser = None /\ context = None /\ page = None
  /\ frame = None /\ elem = None
  /\ pages = << >>
  /\ defaultTimeout = NoTimeout
  /\ nframes = 0 /\ frameIdx = 0
  /\ exc = << >>
  /\ trace = << >>
  /\ acquired = << >>
  /\ closeLog = << >>
  /\ finallyEntered = 0
  /\ exitStatus = NotExited
  /\ loadState = "none"

\* the runs made at once, and the scenario each of them executes
Runs == 1..NumRuns
RunScenario(r) == CASE r = 1 -> "TC004" [] r = 2 -> "TC006" [] OTHER -> "TC007"

\* an engine object is known by the run whose call created it and by its
\* kind; NoHandle stands for None in the locals of a concurrent run
NoHandle == [by |-> 0, kind |-> "none"]
NoLocals == [pw |-> NoHandle, browser |-> NoHandle, context |-> NoHandle,
             page |-> NoHandle]

\* every call of run_test at its first statement, nothing acquired
ConcStart ==
  /\ cpc = [r \in Runs |-> 1]
  /\ cphase = [r \in Runs |-> "try"]
  /\ clocals = [r \in Runs |-> NoLocals]
  /\ live = {}
  /\ touched = {}

Init ==
  /\ scenario \in Scenarios
  /\ runNo = 1
  /\ first = NoFirstRun
  /\ RunStart
  /\ ConcStart

Entry(r, on) == [at |-> pc, r |-> r, on |-> on]

\* (variant: once a navigation of the body has returned, the later
\* navigations are skipped)
Continue_StopAtFirstSuccess ==
  LET nav(op) == op.k = "goto" /\ op.w = "load"
      found == nav(Cur) \/ \E i \in DOMAIN trace :
                               nav(Script(scenario)[trace[i].at]) /\ trace[i].r = "ok"
      rest == {m \in (pc + 1)..Len(Script(scenario)) :
                 ~(found /\ nav(Script(scenario)[m]))}
  IN  /\ exc' = exc
      /\ IF rest # {}
         THEN /\ pc' = CHOOSE m \in rest : \A n \in rest : m <= n
              /\ phase' = "try" /\ finallyEntered' = finallyEntered
         ELSE pc' = pc /\ phase' = "close_context" /\ finallyEntered' = finallyEntered + 1

\* the statement returned: go on to the next one, or fall off the end of
\* the try block into finally
Continue ==
  /\ exc' = exc
  /\ IF pc < Len(Script(scenario))
     THEN pc' = pc + 1 /\ phase' = "try" /\ finallyEntered' = finallyEntered
     ELSE pc' = pc /\ phase' = "close_context" /\ finallyEntered' = finallyEntered + 1

\* the statement raised e out of the try block: control enters finally
Throw(e) ==
  /\ exc' = Chain(e, exc)
  /\ pc' = pc
  /\ phase' = "close_context"
  /\ finallyEntered' = finallyEntered + 1

\* what follows a call that answered r
After(r) ==
  LET e == Raised(Cur, pc, r)
  IN  IF r = "ok" \/ e = << >> THEN Continue ELSE Throw(e)

AtOp(k) == phase = "try" /\ Cur.k = k

NewHandle == Len(acquired) + 1

\* pw = await async_api.async_playwright().start()
Start ==
  /\ AtOp("start")
  /\ \E r \in Answers(Cur) :
       /\ trace' = Append(trace, Entry(r, None))
       /\ IF r = "ok"
          THEN pw' = NewHandle /\ acquired' = Append(acquired, "pw")
          ELSE UNCHANGED << pw, acquired >>
       /\ After(r)
  /\ UNCHANGED << conc, again, scenario, browser, context, page, frame, elem, pages,
                  defaultTimeout, loop, closeLog, exitStatus, loadState >>

\* browser = await pw.chromium.launch(...)
Launch ==
  /\ AtOp("launch")
  /\ \E r \in Answers(Cur) :
       /\ trace' = Append(trace, Entry(r, pw))
       /\ IF r = "ok"
          THEN browser' = NewHandle /\ acquired' = Append(acquired, "browser")
          ELSE UNCHANGED << browser, acquired >>
       /\ After(r)
  /\ UNCHANGED << conc, again, scenario, pw, context, page, frame, elem, pages,
                  defaultTimeout, loop, closeLog, exitStatus, loadState >>

\* context = await browser.new_context()
NewContext ==
  /\ AtOp("new_context")
  /\ \E r \in Answers(Cur) :
       /\ trace' = Append(trace, Entry(r, browser))
       /\ IF r = "ok"
          THEN context' = NewHandle /\ acquired' = Append(acquired, "context")
          ELSE UNCHANGED << context, acquired >>
       /\ After(r)
  /\ UNCHANGED << conc, again, scenario, pw, browser, page, frame, elem, pages,
                  defaultTimeout, loop, closeLog, exitStatus, loadState >>

\* context.set_default_timeout(5000)
SetDefaultTimeout ==
  /\ AtOp("set_default_timeout")
  /\ trace' = Append(trace, Entry("ok", context))
  /\ defaultTimeout' = Cur.t
  /\ After("ok")
  /\ UNCHANGED << conc, again, scenario, pw, browser, context, page, frame, elem, pages,
                  acquired, loop, closeLog, exitStatus, loadState >>

\* page = await context.new_page()
NewPage ==
  /\ AtOp("new_page")
  /\ \E r \in Answers(Cur) :
       /\ trace' = Append(trace, Entry(r, context))
       /\ IF r = "ok"
          THEN /\ page' = NewHandle
               /\ pages' = Append(pages, NewHandle)
               /\ acquired' = Append(acquired, "page")
          ELSE UNCHANGED << page, pages, acquired >>
       /\ After(r)
  /\ UNCHANGED << conc, again, scenario, pw, browser, context, frame, elem,
                  defaultTimeout, loop, closeLog, exitStatus, loadState >>

\* the lifecycle events of a document, in the order they happen
LoadEvents == << "commit", "domcontentloaded", "load" >>
Rank(st) == IF st = "none" THEN 0 ELSE CHOOSE n \in DOMAIN LoadEvents : LoadEvents[n] = st
AtLeast(st) == {e \in {"none", "commit", "domcontentloaded", "load"} : Rank(e) >= Rank(st)}
Below(st) == {e \in {"none", "commit", "domcontentloaded", "load"} : Rank(e) < Rank(st)}

\* (variant: every goto passes wait_until="commit")
WaitUntil_Commit(op) == "commit"

\* the event a goto waits for: its wait_until argument (line 33), "load"
\* when the call gives none (every goto of the bodies)
WaitUntil(op) == op.w

\* await page.goto(url, [wait_until="commit",] timeout=10000): returns once
\* the awaited event has happened, times out while it has not
GotoUrl ==
  /\ AtOp("goto")
  /\ \E r \in Answers(Cur) :
       /\ trace' = Append(trace, Entry(r, page))
       /\ loadState' \in CASE r = "ok" -> AtLeast(WaitUntil(Cur))
                           [] r = "TimeoutError" -> Below(WaitUntil(Cur))
                           [] OTHER -> {"none"}
       /\ After(r)
  /\ UNCHANGED << conc, again, scenario, locals, loop, closeLog, exitStatus >>

\* try: await page.wait_for_load_state("domcontentloaded", timeout=3000)
\* except async_api.Error: pass
WaitForLoadState ==
  /\ AtOp("wait_for_load_state")
  /\ \E r \in Answers(Cur) :
       /\ trace' = Append(trace, Entry(r, page))
       /\ loadState' \in IF r = "ok" THEN AtLeast(Cur.a) \cap AtLeast(loadState)
                                    ELSE {loadState}
       /\ After(r)
  /\ UNCHANGED << conc, again, scenario, locals, loop, closeLog, exitStatus >>

\* for frame in page.frames:   (the main frame and its child frames)
ForFrames ==
  /\ AtOp("for_frames")
  /\ \E n \in FrameCounts :
       /\ nframes' = n
       /\ frameIdx' = 0
  /\ trace' = Append(trace, Entry("ok", page))
  /\ After("ok")
  /\ UNCHANGED << conc, again, scenario, locals, closeLog, exitStatus, loadState >>

\* try: await frame.wait_for_load_state("domcontentloaded", timeout=3000)
\* except async_api.Error: pass          -- once per frame
FrameWait ==
  /\ AtOp("frame_wait")
  /\ frameIdx < nframes
  /\ \E r \in Answers(Cur) :
       LET e == Raised(Cur, pc, r)
       IN  /\ trace' = Append(trace, Entry(r, page))
           /\ frameIdx' = frameIdx + 1
           /\ nframes' = nframes
           /\ IF r # "ok" /\ e # << >> THEN Throw(e)
              ELSE IF frameIdx + 1 < nframes
                   THEN UNCHANGED << pc, phase, exc, finallyEntered >>
                   ELSE Continue
  /\ UNCHANGED << conc, again, scenario, locals, closeLog, exitStatus, loadState >>

\* await page.mouse.wheel(0, await page.evaluate('() => window.innerHeight'))
Wheel ==
  /\ AtOp("wheel")
  /\ \E r \in Answers(Cur) :
       /\ trace' = Append(trace, Entry(r, page))
       /\ After(r)
  /\ UNCHANGED << conc, again, scenario, locals, loop, closeLog, exitStatus, loadState >>

\* await asyncio.sleep(n)
AsyncSleep ==
  /\ AtOp("sleep")
  /\ trace' = Append(trace, Entry("ok", None))
  /\ After("ok")
  /\ UNCHANGED << conc, again, scenario, locals, loop, closeLog, exitStatus, loadState >>

\* (variant: the first page of the context is taken, context.pages[0])
PagesFirst == pages[1]

\* context.pages[-1]: the page of the context created last
PagesLast == Last(pages)

\* frame = context.pages[-1]; elem = frame.locator('xpath=...').nth(0)
LocateElem ==
  /\ AtOp("locate")
  /\ frame' = PagesLast
  /\ elem' = PagesLast
  /\ trace' = Append(trace, Entry("ok", PagesLast))
  /\ After("ok")
  /\ UNCHANGED << conc, again, scenario, pw, browser, context, page, pages, defaultTimeout,
                  acquired, loop, closeLog, exitStatus, loadState >>

\* frame = context.pages[-1]    (before the final assertions)
LastPageOf ==
  /\ AtOp("last_page")
  /\ frame' = PagesLast
  /\ trace' = Append(trace, Entry("ok", PagesLast))
  /\ After("ok")
  /\ UNCHANGED << conc, again, scenario, pw, browser, context, page, elem, pages, defaultTimeout,
                  acquired, loop, closeLog, exitStatus, loadState >>

\* await page.wait_for_timeout(3000)
WaitForTimeout ==
  /\ AtOp("wait_for_timeout")
  /\ \E r \in Answers(Cur) :
       /\ trace' = Append(trace, Entry(r, page))
       /\ After(r)
  /\ UNCHANGED << conc, again, scenario, locals, loop, closeLog, exitStatus, loadState >>

\* await elem.fill('test')     (no timeout argument: the context's default)
FillElem ==
  /\ AtOp("fill")
  /\ \E r \in Answers(Cur) :
       /\ trace' = Append(trace, Entry(r, elem))
       /\ After(r)
  /\ UNCHANGED << conc, again, scenario, locals, loop, closeLog, exitStatus, loadState >>

\* await elem.click(timeout=5000); the click may open a further page
ClickElem ==
  /\ AtOp("click")
  /\ \E r \in Answers(Cur), popup \in BOOLEAN :
       /\ popup => r = "ok" /\ Len(pages) <= MaxPopups
       /\ trace' = Append(trace, Entry(r, elem))
       /\ IF popup
          THEN /\ pages' = Append(pages, NewHandle)
               /\ acquired' = Append(acquired, "popup")
          ELSE UNCHANGED << pages, acquired >>
       /\ After(r)
  /\ UNCHANGED << conc, again, scenario, pw, browser, context, page, frame, elem,
                  defaultTimeout, loop, closeLog, exitStatus, loadState >>

\* await expect(<page or frame>.locator('text=...')).to_be_visible(timeout=t)
Receiver(op) == IF op.v = "frame" THEN frame ELSE page

Expect ==
  /\ AtOp("expect")
  /\ \E r \in Answers(Cur) :
       /\ trace' = Append(trace, Entry(r, Receiver(Cur)))
       /\ After(r)
  /\ UNCHANGED << conc, again, scenario, locals, loop, closeLog, exitStatus, loadState >>

\* ---------------------------------------------------------------- finally
\* (variant: each closing call sits in a handler that ignores its error)
CloseRaised_Tolerated(off) == << >>

\* the exception leaving a close()/stop() call that raised, `off` lines
\* into the finally block; it replaces the one in flight, keeping it as context
CloseRaised(off) == << Exc("Error", FinallyLine(scenario) + off, 0, "engine") >>

\* (variant: the browser is closed before the context)
ClosingTarget_BrowserFirst(ph) ==
  CASE ph = "close_context" -> browser
    [] ph = "close_browser" -> context
    [] ph = "stop_pw" -> pw

\* the handle each step of the finally block tests and closes (lines 106-111)
ClosingTarget(ph) ==
  CASE ph = "close_context" -> context
    [] ph = "close_browser" -> browser
    [] ph = "stop_pw" -> pw

\* what a successful close releases besides the handle itself: closing a
\* context closes every page of it
Implied(h) == IF h = context THEN {pages[i] : i \in DOMAIN pages} ELSE {}

\* where control goes from a closing step: on to the next one when the
\* call returned, out of run_test when it raised
AfterClose(r, next) == IF r = "ok" THEN next ELSE "exit"

\* one step of the finally block: if <handle>: await <handle>.close()
CloseStep(ph, next, off) ==
  /\ phase = ph
  /\ IF ClosingTarget(ph) = None
     THEN /\ phase' = next
          /\ UNCHANGED << exc, closeLog >>
     ELSE \E r \in CloseAnswers :
            /\ closeLog' = Append(closeLog,
                 [h |-> ClosingTarget(ph), r |-> r,
                  also |-> IF r = "ok" THEN Implied(ClosingTarget(ph)) ELSE {}])
            /\ phase' = AfterClose(r, next)
            /\ exc' = IF r = "ok" THEN exc ELSE Chain(CloseRaised(off), exc)
  /\ UNCHANGED << conc, again, scenario, pc, locals, loop, trace, finallyEntered, exitStatus, loadState >>

\* if context: await context.close()
CloseContext == CloseStep("close_context", "close_browser", 2)

\* if browser: await browser.close()
CloseBrowser == CloseStep("close_browser", "stop_pw", 4)

\* if pw: await pw.stop()
StopPw == CloseStep("stop_pw", "exit", 6)

\* run_test returns or raises; asyncio.run(run_test()) ends the process
Exit ==
  /\ phase = "exit"
  /\ phase' = "done"
  /\ exitStatus' = ExitCode(exc)
  /\ UNCHANGED << conc, again, scenario, pc, locals, loop, exc, trace, closeLog, finallyEntered, loadState >>

Next ==
  \/ Start \/ Launch \/ NewContext \/ SetDefaultTimeout \/ NewPage
  \/ GotoUrl \/ WaitForLoadState \/ ForFrames \/ FrameWait
  \/ Wheel \/ AsyncSleep \/ LocateElem \/ LastPageOf \/ WaitForTimeout
  \/ FillElem \/ ClickElem \/ Expect
  \/ CloseContext \/ CloseBrowser \/ StopPw \/ Exit

Spec == Init /\ [][Next]_vars

\* asyncio.run(run_test()) once more, after a first run has ended: run_test
\* starts again from fresh locals; the application is as it was, so the
\* answers of the first run are kept to answer the second
Rerun ==
  /\ phase = "done" /\ runNo = 1
  /\ runNo' = 2
  /\ first' = [trace |-> trace, closeLog |-> closeLog, nframes |-> nframes,
               verdict |-> Verdict(exc), exitStatus |-> exitStatus]
  /\ pc' = 1
  /\ phase' = "try"
  /\ pw' = None /\ browser' = None /\ context' = None /\ page' = None
  /\ frame' = None /\ elem' = None
  /\ pages' = << >>
  /\ defaultTimeout' = NoTimeout
  /\ nframes' = 0 /\ frameIdx' = 0
  /\ exc' = << >>
  /\ trace' = << >>
  /\ acquired' = << >>
  /\ closeLog' = << >>
  /\ finallyEntered' = 0
  /\ exitStatus' = NotExited
  /\ loadState' = "none"
  /\ UNCHANGED << conc, scenario >>

NextTwice == Next \/ Rerun

SpecTwice == Init /\ [][NextTwice]_vars

TypeOK ==
  /\ scenario \in Scenarios
  /\ pc \in 1..Len(Script(scenario))
  /\ phase \in {"try", "close_context", "close_browser", "stop_pw", "exit", "done"}
  /\ exitStatus \in {NotExited, 0, 1}
  /\ finallyEntered \in 0..1
  /\ runNo \in 1..2
  /\ runNo = 1 => first = NoFirstRun

\* ------------------------------------------------------- reading a run
OpAt(i) == Script(scenario)[trace[i].at]
Ended == phase = "done"
\* the close()/stop() calls made on handle h
CloseCalls(h) == {i \in DOMAIN closeLog : closeLog[i].h = h}
\* the handles run_test holds in its three guarded locals
Held == {context, browser, pw} \ {None}
CloseFailed == \E i \in DOMAIN closeLog : closeLog[i].r # "ok"
\* a statement of the try block raised outside the two load-state handlers
TryRaised == \E i \in DOMAIN trace : trace[i].r # "ok" /\ OpAt(i).w # "swallow"
AcquisitionKinds == {"start", "launch", "new_context", "new_page"}
\* an expect() found its text not visible within its timeout
AssertTimedOut == \E i \in DOMAIN trace : trace[i].r = "AssertionError"

\* ------------------------------------------------------------------ C1
\* C1: in every run, wherever an error is raised, control enters the
\* finally block exactly once and every handle that was acquired has been
\* closed exactly once by the time the run ends.
C1_EachHandleClosedOnce ==
  Ended => /\ finallyEntered = 1
           /\ \A h \in Held : Cardinality(CloseCalls(h)) = 1

\* ------------------------------------------------------------------ C2
\* C2: an error raised by one closing step is swallowed and the later
\* closing steps still run: after a close() that raised, every handle
\* acquired before the one being closed is still closed, and the error of
\* the closing step does not leave the run.
C2_CloseErrorsTolerated ==
  Ended =>
    \A i \in DOMAIN closeLog :
      closeLog[i].r # "ok" =>
        /\ \A h \in Held : h < closeLog[i].h =>
             \E j \in DOMAIN closeLog : j > i /\ closeLog[j].h = h
        /\ \A k \in DOMAIN exc : exc[k].at # 0

\* ------------------------------------------------------------------ C3
\* C3 as stated: when an expect() times out, the assertion does not throw
\* past its boundary: no exception is in flight afterwards and none
\* leaves the run.
C3_AssertionNeverThrows == AssertTimedOut => exc = << >>

\* C3 amended: when an expect() times out, an AssertionError leaves the
\* try block (re-raised with the authored message where the file has the
\* handler, as raised by expect in TC006); the run never passes and exits
\* non-zero; the AssertionError is what leaves run_test (Failed) unless a
\* closing step raised, and then the closing step's error leaves run_test
\* with the AssertionError as its context (Errored).
C3_AssertionTimeoutRaises ==
  \A i \in DOMAIN trace :
    trace[i].r = "AssertionError" =>
      /\ i = Len(trace)
      /\ phase # "try"
      /\ \E k \in DOMAIN exc :
           /\ exc[k].kind = "AssertionError" /\ exc[k].at = trace[i].at
           /\ exc[k].msg = IF OpAt(i).w = "reraise" THEN "authored" ELSE "engine"
           /\ \A m \in 1..(k - 1) : exc[m].at = 0
      /\ Verdict(exc) = IF CloseFailed THEN "Errored" ELSE "Failed"
      /\ Ended => exitStatus = 1

C3_Witness ==
  /\ Ended /\ scenario = "TC004" /\ AssertTimedOut
  /\ Verdict(exc) = "Failed" /\ Head(exc).msg = "authored"

\* ------------------------------------------------------------------ C4
\* C4 as stated: a Fill or Click that times out does not end the run: the
\* try block goes on (to a fallback, a later step) after it.
C4_FillClickTimeoutNotFatal ==
  \A i \in DOMAIN trace :
    OpAt(i).k \in {"fill", "click"} /\ trace[i].r = "TimeoutError" => phase = "try"

\* C4 amended: a Fill or Click that times out is immediately fatal to the
\* scenario body: no alternative selector is tried, no later statement and
\* no final assertion runs, control passes to teardown, and the run ends
\* Errored with a non-zero exit status.
C4_FillClickTimeoutFatal ==
  \A i \in DOMAIN trace :
    OpAt(i).k \in {"fill", "click"} /\ trace[i].r = "TimeoutError" =>
      /\ i = Len(trace)
      /\ phase # "try"
      /\ finallyEntered = 1
      /\ \E k \in DOMAIN exc : exc[k].kind = "TimeoutError" /\ exc[k].at = trace[i].at
      /\ Verdict(exc) = "Errored"
      /\ Ended => exitStatus = 1

C4_Witness ==
  /\ Ended /\ trace # << >>
  /\ OpAt(Len(trace)).k = "fill" /\ Last(trace).r = "TimeoutError"

\* ------------------------------------------------------------------ C5
\* the navigations of the scenario body (every goto after the initial one)
IsNav(op) == op.k = "goto" /\ op.w = "load"
NavAttempts == {i \in DOMAIN trace : IsNav(OpAt(i))}
NavStatements == {n \in DOMAIN Script(scenario) : IsNav(Script(scenario)[n])}

\* C5 as stated: resolution stops at the first navigation that succeeds:
\* no navigation is attempted after one that returned normally.
C5_StopsAtFirstSuccess ==
  \A i, j \in NavAttempts : i < j => trace[i].r # "ok"

\* C5 amended: the navigations are attempted strictly in authored order
\* and unconditionally: a navigation is attempted exactly when every
\* statement before it returned (whether or not an earlier navigation
\* succeeded), each authored navigation at most once, and the first
\* navigation that raises ends the try block, so that no later one is
\* attempted.
C5_NavigationsInOrderUnconditional ==
  /\ \A i, j \in NavAttempts : i < j => trace[i].at < trace[j].at
  /\ \A i \in NavAttempts : trace[i].r # "ok" => i = Len(trace) /\ phase # "try"
  /\ \A n \in NavStatements :
       (\E i \in NavAttempts : trace[i].at = n)
         <=> \/ pc > n
             \/ pc = n /\ phase # "try"

C5_Witness ==
  /\ scenario = "TC002" /\ Ended
  /\ \E i, j, k \in NavAttempts :
       /\ OpAt(i).a = "/sign-up" /\ trace[i].r = "ok"
       /\ OpAt(j).a = "/" /\ trace[j].r = "ok"
       /\ OpAt(k).a = "/login"

\* ------------------------------------------------------------------ C6
\* C6 as stated: a timeout on a navigation, a load-state wait or an
\* element wait is swallowed and never leaves the statement that timed
\* out: no TimeoutError of such a statement is ever in flight.
SuspendKinds == {"goto", "wait_for_load_state", "frame_wait", "fill", "click"}

C6_TimeoutsRecoverable ==
  \A k \in DOMAIN exc :
    exc[k].kind = "TimeoutError" =>
      exc[k].at # 0 /\ Script(scenario)[exc[k].at].k \notin SuspendKinds

\* C6 amended: a timeout on a DOMContentLoaded wait (of the page or of one
\* of its frames) cancels only that wait: it is swallowed and the run goes
\* on with the next statement.  A timeout on any other suspend point (a
\* navigation, a fill, a click) is not recovered: it ends the try block,
\* no remaining step and no final assertion runs, and after teardown an
\* error leaves the run, which exits non-zero.
C6_OnlyLoadStateTimeoutsSwallowed ==
  \A i \in DOMAIN trace :
    trace[i].r = "TimeoutError" /\ OpAt(i).k \in SuspendKinds =>
      IF OpAt(i).k \in {"wait_for_load_state", "frame_wait"}
      THEN /\ \A k \in DOMAIN exc : exc[k].at # trace[i].at
           /\ i = Len(trace) => phase = "try" /\ exc = << >>
      ELSE /\ i = Len(trace)
           /\ phase # "try"
           /\ \E k \in DOMAIN exc : exc[k].kind = "TimeoutError" /\ exc[k].at = trace[i].at
           /\ Ended => exitStatus = 1

C6_Witness ==
  /\ Ended /\ scenario = "TC007"
  /\ \E i, j \in DOMAIN trace :
       /\ OpAt(i).k = "frame_wait" /\ trace[i].r = "TimeoutError"
       /\ i < j /\ OpAt(j).k = "goto" /\ OpAt(j).a = "/protected"
       /\ trace[j].r = "TimeoutError"

\* ------------------------------------------------------------------ C7
\* C7: every run ends exactly once, with one verdict among Passed, Failed
\* and Errored; the verdict is Passed only when nothing raised, and when a
\* statement of the try block raised and stopped the run, what leaves
\* run_test (the exception and its chain of contexts, which the
\* interpreter prints) names that statement, also when a closing step
\* raised afterwards.
C7_OutcomeNamesFailedStep ==
  /\ (exitStatus # NotExited) <=> Ended
  /\ Ended =>
       /\ finallyEntered = 1
       /\ Verdict(exc) \in {"Passed", "Failed", "Errored"}
       /\ Verdict(exc) = "Passed" <=> ~TryRaised /\ ~CloseFailed
       /\ \A i \in DOMAIN trace :
            trace[i].r # "ok" /\ OpAt(i).w # "swallow" =>
              \E k \in DOMAIN exc :
                exc[k].at = trace[i].at /\ exc[k].ln = OpAt(i).ln /\ exc[k].kind = trace[i].r

C7_Witness ==
  /\ Ended /\ scenario = "TC002" /\ CloseFailed
  /\ OpAt(Len(trace)).k = "click" /\ Last(trace).r = "Error"
  /\ Len(exc) = 2 /\ exc[2].at = Last(trace).at

\* ------------------------------------------------------------------ C8
\* C8: a run in which a step raised, session acquisition failed, the
\* final assertion did not hold or a closing step raised ends Failed or
\* Errored, and its exit status is non-zero.
C8_FailureExitsNonZero ==
  Ended /\ (TryRaised \/ CloseFailed) =>
    exitStatus # 0 /\ Verdict(exc) \in {"Failed", "Errored"}

C8_Witness ==
  /\ Ended /\ scenario = "TC006" /\ AssertTimedOut /\ ~CloseFailed
  /\ Verdict(exc) = "Failed" /\ exitStatus = 1

\* ------------------------------------------------------------------ C9
\* C9: handles are acquired engine, browser, context, page and released
\* in the reverse order: no close()/stop() call is made on a handle before
\* the call on a handle acquired after it, and the pages, acquired last,
\* are released by the first call, the one closing their context.
AcquisitionOrder == << "pw", "browser", "context", "page" >>

C9_ReleaseReversesAcquisition ==
  /\ \A i \in DOMAIN acquired :
       acquired[i] = IF i <= Len(AcquisitionOrder) THEN AcquisitionOrder[i] ELSE "popup"
  /\ \A i, j \in DOMAIN closeLog : i < j => closeLog[i].h > closeLog[j].h
  /\ \A i \in DOMAIN closeLog :
       /\ \A p \in closeLog[i].also : acquired[p] \in {"page", "popup"} /\ p > closeLog[i].h
       /\ closeLog[i].r = "ok" /\ acquired[closeLog[i].h] = "context" /\ page # None
            => page \in closeLog[i].also
       /\ closeLog[i].also # {} => i = 1

C9_Witness ==
  /\ Ended /\ Len(closeLog) = 3
  /\ \A i \in DOMAIN closeLog : closeLog[i].r = "ok"
  /\ page \in closeLog[1].also

\* ----------------------------------------------------------------- C10
\* C10: when starting the engine, launching the browser, creating the
\* context or creating the page raises, nothing but acquisition has run
\* and nothing runs afterwards (no step, no final assertion), control
\* enters the finally block, and the run ends Errored, not Failed, with a
\* non-zero exit status.
C10_AcquisitionFailureErrors ==
  \A i \in DOMAIN trace :
    OpAt(i).k \in AcquisitionKinds /\ trace[i].r # "ok" =>
      /\ i = Len(trace)
      /\ \A j \in DOMAIN trace : OpAt(j).k \in AcquisitionKinds \cup {"set_default_timeout"}
      /\ phase # "try"
      /\ finallyEntered = 1
      /\ Verdict(exc) = "Errored"
      /\ Ended => /\ exitStatus = 1
                  /\ CloseFailed \/ \A h \in Held : CloseCalls(h) # {}

C10_Witness ==
  /\ Ended /\ trace # << >>
  /\ OpAt(Len(trace)).k = "new_context" /\ Last(trace).r = "Error"
  /\ Len(closeLog) = 2 /\ ~CloseFailed

\* ----------------------------------------------------------------- C11
Navigations == {i \in DOMAIN trace : OpAt(i).k = "goto"}

\* C11 as stated: every navigation of every scenario waits only for
\* network-commit, never for the load event.
C11_EveryNavigateWaitsForCommit ==
  \A i \in Navigations : WaitUntil(OpAt(i)) = "commit"

\* C11 amended: only the initial navigation to the base URL (line 33)
\* waits for network-commit, so the run may proceed before the document
\* has loaded; every navigation of a scenario body waits for the load
\* event: when it returns the document has fully loaded.
C11_OnlyInitialNavigationWaitsForCommit ==
  \A i \in Navigations :
    /\ WaitUntil(OpAt(i)) = (IF OpAt(i).ln = 33 THEN "commit" ELSE "load")
    /\ i = Len(trace) /\ trace[i].r = "ok" =>
         IF OpAt(i).ln = 33 THEN loadState \in AtLeast("commit")
                            ELSE loadState = "load"
    /\ i = Len(trace) /\ trace[i].r = "TimeoutError" =>
         loadState \in Below(WaitUntil(OpAt(i)))

C11_Witness ==
  /\ scenario = "TC004" /\ phase = "try" /\ trace # << >>
  /\ OpAt(Len(trace)).a = "/sign-in" /\ Last(trace).r = "ok" /\ loadState = "load"
  /\ \E i \in Navigations : OpAt(i).ln = 33 /\ trace[i].r = "ok"

\* ----------------------------------------------------------------- C12
LoadWaits == {i \in DOMAIN trace : OpAt(i).k \in {"wait_for_load_state", "frame_wait"}}
FrameWaits == {i \in DOMAIN trace : OpAt(i).k = "frame_wait"}

\* C12: the DOMContentLoaded waits after the initial navigation (on the
\* page and on each of its frames, 3000 ms each) may expire: when one
\* times out or raises an engine error nothing leaves the statement, the
\* run goes on with the next frame and, after the last frame, with the
\* first step of the scenario; every frame is waited for.
C12_ContentReadyWaitMayExpire ==
  /\ \A i \in LoadWaits :
       /\ OpAt(i).t = LoadStateTimeout /\ OpAt(i).a = "domcontentloaded"
       /\ trace[i].r # "ok" =>
            /\ \A k \in DOMAIN exc : exc[k].at # trace[i].at
            /\ i = Len(trace) => phase = "try" /\ exc = << >>
            /\ i < Len(trace) =>
                 \/ trace[i + 1].at = trace[i].at + 1
                 \/ trace[i + 1].at = trace[i].at /\ OpAt(i).k = "frame_wait"
  /\ \A i \in DOMAIN trace :
       OpAt(i).ln >= 48 => Cardinality(FrameWaits) = nframes /\ nframes >= 1

C12_Witness ==
  /\ scenario = "TC002" /\ nframes = 2
  /\ \E i, j, k \in DOMAIN trace :
       /\ OpAt(i).k = "wait_for_load_state" /\ trace[i].r = "TimeoutError"
       /\ OpAt(j).k = "frame_wait" /\ trace[j].r = "Error"
       /\ j < k /\ OpAt(k).k = "frame_wait" /\ trace[k].r = "TimeoutError"
  /\ OpAt(Len(trace)).ln = 50 /\ Last(trace).r = "ok"

\* ----------------------------------------------------------------- C13
Assertions == {i \in DOMAIN trace : OpAt(i).k = "expect"}

\* C13: the statements of a run execute one after the other in authored
\* order, none skipped, repeated or reordered (only the frame wait of
\* line 44 runs once per frame), and a final assertion is evaluated only
\* after every statement before it has run and completed.
C13_SequentialThenAssert ==
  /\ trace # << >> => trace[1].at = 1
  /\ \A i \in DOMAIN trace :
       i < Len(trace) =>
         \/ trace[i + 1].at = trace[i].at + 1
         \/ trace[i + 1].at = trace[i].at /\ OpAt(i).k = "frame_wait"
  /\ \A i \in Assertions :
       \A n \in 1..(trace[i].at - 1) :
         \E j \in 1..(i - 1) :
           /\ trace[j].at = n
           /\ trace[j].r = "ok" \/ OpAt(j).w \in {"swallow"}
  /\ phase = "try" => pc = (IF trace = << >> THEN 1
                            ELSE IF Cur.k = "frame_wait" /\ frameIdx < nframes /\ frameIdx > 0
                                 THEN Last(trace).at ELSE Last(trace).at + 1)

C13_Witness ==
  /\ scenario = "TC004" /\ Ended
  /\ \E i \in Assertions : trace[i].r = "ok" /\ i = Len(trace) - 1
  /\ Len(trace) >= Len(Script("TC004"))

\* ----------------------------------------------------------------- C16
\* the statements that act on the local `page` and those that act on a
\* locator of `frame = context.pages[-1]`
OnPageKinds == {"goto", "wait_for_load_state", "for_frames", "frame_wait", "wheel",
                "wait_for_timeout"}
ViaLastPage(i) == OpAt(i).k \in {"locate", "last_page", "fill", "click"}
                    \/ (OpAt(i).k = "expect" /\ OpAt(i).v = "frame")

\* C16 as stated: the context never holds more than the one page the
\* session created, and every Fill, Click and final assertion targets it:
\* context.pages[-1] is always that page, also after a Click.
C16_SinglePageAlways ==
  /\ Len(pages) <= 1
  /\ \A i \in DOMAIN trace :
       OpAt(i).k \in {"fill", "click", "expect"} => trace[i].on = page

\* C16 amended: the session itself creates exactly one page, which stays
\* the first page of the context, and every navigation, scroll and wait
\* targets it, as do the final assertions of TC004 and TC007.  Fill, Click
\* and the final assertions of TC002 and TC006 target context.pages[-1] as
\* read just before: the session's page as long as no Click has opened a
\* further page, the most recently opened page afterwards.
C16_TargetsLastPageOfContext ==
  /\ page # None => pages # << >> /\ pages[1] = page
  /\ Cardinality({h \in DOMAIN acquired : acquired[h] = "page"}) <= 1
  /\ \A i \in DOMAIN trace :
       /\ OpAt(i).k \in OnPageKinds => trace[i].on = page
       /\ OpAt(i).k = "expect" /\ OpAt(i).v = "page" => trace[i].on = page
       /\ ViaLastPage(i) =>
            /\ \E n \in DOMAIN pages : pages[n] = trace[i].on
            /\ Len(pages) = 1 => trace[i].on = page
            /\ i = Len(trace) /\ OpAt(i).k \in {"locate", "last_page"} =>
                 trace[i].on = pages[Len(pages)] /\ frame = trace[i].on
            /\ i > 1 /\ OpAt(i).k \in {"fill", "click", "expect"} /\ ViaLastPage(i - 1) =>
                 trace[i].on = trace[i - 1].on \/ OpAt(i - 1).k = "expect"

C16_Witness ==
  /\ scenario = "TC002" /\ Len(pages) = 2
  /\ \E i \in Assertions : trace[i].on = pages[2] /\ trace[i].on # page /\ trace[i].r = "ok"

\* ----------------------------------------------------------------- C17
\* the steps that run under a timeout
TimedSteps == {i \in DOMAIN trace :
                 OpAt(i).k \in {"goto", "wait_for_load_state", "frame_wait", "fill", "click"}}

\* C17 as stated: in every scenario the final assertion's timeout is
\* strictly shorter than the timeout of every step.
C17_AssertionTimeoutShortest ==
  \A i \in Assertions : \A j \in TimedSteps :
    EffectiveTimeout(OpAt(i)) < EffectiveTimeout(OpAt(j))

\* C17 amended: in TC004 and TC007 the final assertion's timeout (1000 ms)
\* is strictly shorter than the timeout of every step; in TC002 and TC006
\* it is 30000 ms, strictly longer than the timeout of every step (10000
\* ms navigations, 3000 ms load-state waits, 5000 ms fill and click, fill
\* running under the context default of 5000 ms).
C17_AssertionTimeoutByScenario ==
  /\ \A j \in TimedSteps :
       /\ EffectiveTimeout(OpAt(j)) \in {GotoTimeout, LoadStateTimeout, DefaultTimeout, ClickTimeout}
       /\ OpAt(j).k = "fill" => EffectiveTimeout(OpAt(j)) = DefaultTimeout
  /\ \A i \in Assertions : \A j \in TimedSteps :
       IF scenario \in {"TC004", "TC007"}
       THEN /\ EffectiveTimeout(OpAt(i)) = ShortAssertTimeout
            /\ EffectiveTimeout(OpAt(i)) < EffectiveTimeout(OpAt(j))
       ELSE /\ EffectiveTimeout(OpAt(i)) = LongAssertTimeout
            /\ EffectiveTimeout(OpAt(i)) > EffectiveTimeout(OpAt(j))

C17_Witness ==
  /\ scenario = "TC002" /\ Assertions # {}
  /\ \E j \in TimedSteps : OpAt(j).k = "fill" /\ EffectiveTimeout(OpAt(j)) = 5000
  /\ \E i \in Assertions : EffectiveTimeout(OpAt(i)) = 30000

\* ----------------------------------------------------------------- C18
\* a final assertion failed inside the handler that raises the authored
\* 'Test ... failed: ...' message
AuthoredAssertionFailed ==
  \E i \in Assertions : trace[i].r = "AssertionError" /\ OpAt(i).w = "reraise"

\* C18 as stated: every run that ends Failed or Errored carries an
\* authored message as its primary signal, never the engine's raw error.
C18_AlwaysAuthoredMessage ==
  Ended /\ Verdict(exc) \in {"Failed", "Errored"} => Head(exc).msg = "authored"

\* C18 amended: a run carries the authored message as its primary signal
\* exactly when the final assertion of TC002, TC004 or TC007 failed and no
\* closing step raised afterwards (the run is then Failed); when a final
\* assertion of TC006 fails, a step or session acquisition raises, or a
\* closing step raises, the primary signal is the engine's own error.
C18_AuthoredOnlyForHandledAssertion ==
  Ended /\ Verdict(exc) \in {"Failed", "Errored"} =>
    /\ Head(exc).msg = "authored" <=> AuthoredAssertionFailed /\ ~CloseFailed
    /\ Head(exc).msg = "authored" =>
         Verdict(exc) = "Failed" /\ scenario \in {"TC002", "TC004", "TC007"}
    /\ scenario = "TC006" => Head(exc).msg = "engine"

C18_Witness ==
  /\ Ended /\ scenario = "TC007" /\ Verdict(exc) = "Failed"
  /\ Head(exc).msg = "authored" /\ Head(exc).ln = 150

\* ----------------------------------------------------------------- C19
\* the interactions of a run, in execution order: navigations of the
\* body, locators, fills, clicks and assertions, each with its argument
IsInteraction(e) ==
  LET op == Script(scenario)[e.at]
  IN  (op.k = "goto" /\ op.w = "load") \/ op.k \in {"locate", "fill", "click", "expect"}
InteractionOf(e) ==
  LET op == Script(scenario)[e.at] IN << op.k, op.a >>
Interactions ==
  LET sel == SelectSeq(trace, IsInteraction)
  IN  [n \in DOMAIN sel |-> InteractionOf(sel[n])]
IsPrefix(p, q) == Len(p) <= Len(q) /\ \A n \in DOMAIN p : p[n] = q[n]

\* C19 as stated: in the Fan sign-up scenario no Fill or Click other than
\* the two fills and the click on the submit button (line 85) comes
\* before the final assertion.
C19_AssertionFollowsSubmitClick ==
  scenario = "TC002" =>
    \A i \in Assertions : \A j \in 1..(i - 1) :
      OpAt(j).k \in {"fill", "click"} => OpAt(j).ln <= 85

\* C19 amended: the Fan sign-up scenario navigates to /sign-up, / and
\* /login, fills 'test' into the first and the second input, clicks the
\* button, then scrolls and clicks a second element (a link, line 94),
\* and only then asserts that 'Exclusive Fan Content Access' is visible
\* within 30000 ms; when every statement returns and no closing step
\* raises, the run ends Passed with exit status 0.
FanSignUpInteractions ==
  << << "goto", "/sign-up" >>, << "goto", "/" >>, << "goto", "/login" >>,
     << "locate", "div/input" >>, << "fill", "test" >>,
     << "locate", "div/div/input" >>, << "fill", "test" >>,
     << "locate", "div/div/button" >>, << "click", "" >>,
     << "locate", "div/a" >>, << "click", "" >>,
     << "expect", "Exclusive Fan Content Access" >> >>

C19_FanSignUpSequence ==
  scenario = "TC002" =>
    /\ IsPrefix(Interactions, FanSignUpInteractions)
    /\ \A i \in Assertions :
         /\ EffectiveTimeout(OpAt(i)) = LongAssertTimeout
         /\ Interactions = FanSignUpInteractions
         /\ \E j \in 1..(i - 1) : OpAt(j).k = "click" /\ OpAt(j).ln = 94 /\ trace[j].r = "ok"
    /\ Ended /\ ~TryRaised /\ ~CloseFailed =>
         /\ Interactions = FanSignUpInteractions
         /\ Verdict(exc) = "Passed" /\ exitStatus = 0
    /\ Ended /\ Verdict(exc) = "Passed" => ~TryRaised /\ ~CloseFailed

C19_Witness ==
  /\ scenario = "TC002" /\ Ended /\ Verdict(exc) = "Passed"
  /\ Interactions = FanSignUpInteractions

\* ----------------------------------------------------------------- C20
\* C20: by the end of a run the finally block has called close()/stop()
\* on exactly the handles run_test had acquired into its locals, however
\* far acquisition got, and on no handle that was never acquired.
C20_ClosesExactlyAcquired ==
  Ended =>
    /\ {closeLog[i].h : i \in DOMAIN closeLog} = Held
    /\ \A i \in DOMAIN closeLog : closeLog[i].h \in DOMAIN acquired

\* ------------------------------------------------- several runs at once
\* Several calls of run_test are in progress together and take their steps
\* in any order; a call gives way to the others at each await.

\* (variant: pw, browser, context and page are module-level names that
\* every call assigns and reads)
Slot_Shared(r) == 1

\* where call r keeps pw, browser, context and page: they are assigned
\* inside run_test (lines 6-8, 30), so each call has its own
Slot(r) == r

Mine(r) == clocals[Slot(r)]
CurOf(r) == Script(RunScenario(r))[cpc[r]]

\* the local a statement's receiver is reached from: a frame comes from
\* page.frames or context.pages[-1], an element from frame.locator
ReceiverVar(op) == IF op.v \in {"frame", "elem"} THEN "page" ELSE op.v

\* the local an acquiring statement assigns
TargetVar(op) ==
  CASE op.k = "start" -> "pw"
    [] op.k = "launch" -> "browser"
    [] op.k = "new_context" -> "context"
    [] op.k = "new_page" -> "page"

\* the call made by statement op of run r, as a record of who called what
Touch(r, op) ==
  IF op.v = "" THEN {}
  ELSE {[run |-> r, h |-> Mine(r)[ReceiverVar(op)], how |-> "call",
         open |-> Mine(r)[ReceiverVar(op)] \in live]}

\* run r leaves its try block for its finally block
ConcFinally(r) ==
  /\ cphase' = [cphase EXCEPT ![r] = "close_context"]
  /\ cpc' = [cpc EXCEPT ![r] = 0]

\* lines 12, 15, 26, 30: a statement that creates an engine object and
\* assigns it to a local
ConcAcquire(r) ==
  /\ cphase[r] = "try"
  /\ CurOf(r).k \in {"start", "launch", "new_context", "new_page"}
  /\ \E res \in Outcomes(CurOf(r)) :
       /\ touched' = touched \cup Touch(r, CurOf(r))
       /\ IF res = "ok"
          THEN LET h == [by |-> r, kind |-> TargetVar(CurOf(r))]
               IN /\ clocals' = [clocals EXCEPT ![Slot(r)][TargetVar(CurOf(r))] = h]
                  /\ live' = live \cup {h}
                  /\ cpc' = [cpc EXCEPT ![r] = @ + 1]
                  /\ UNCHANGED cphase
          ELSE /\ ConcFinally(r)
               /\ UNCHANGED << clocals, live >>
  /\ UNCHANGED << again, scenario, runVars >>

\* every other statement of the try block: a call on an object reached
\* from the locals (frame_wait is made once for each frame)
ConcUse(r) ==
  /\ cphase[r] = "try"
  /\ CurOf(r).k \notin {"start", "launch", "new_context", "new_page"}
  /\ \E res \in Outcomes(CurOf(r)), more \in BOOLEAN :
       /\ touched' = touched \cup Touch(r, CurOf(r))
       /\ IF res = "ok" \/ Swallowed(CurOf(r), res)
          THEN IF more /\ CurOf(r).k = "frame_wait"
               THEN UNCHANGED << cpc, cphase >>
               ELSE IF cpc[r] = Len(Script(RunScenario(r)))
                    THEN ConcFinally(r)
                    ELSE /\ cpc' = [cpc EXCEPT ![r] = @ + 1]
                         /\ UNCHANGED cphase
          ELSE ConcFinally(r)
  /\ UNCHANGED << again, scenario, runVars, clocals, live >>

\* the local each step of the finally block tests and closes
ConcTarget(r, ph) ==
  CASE ph = "close_context" -> Mine(r).context
    [] ph = "close_browser" -> Mine(r).browser
    [] ph = "stop_pw" -> Mine(r).pw

NextClose(ph) ==
  CASE ph = "close_context" -> "close_browser"
    [] ph = "close_browser" -> "stop_pw"
    [] ph = "stop_pw" -> "exit"

\* the kinds of object that go when an object of kind k is closed
Under(k) ==
  CASE k = "context" -> {"context", "page"}
    [] k = "browser" -> {"browser", "context", "page"}
    [] k = "pw" -> {"pw", "browser", "context", "page"}

\* one step of the finally block of run r: if <handle>: await <handle>.close()
ConcClose(r) ==
  /\ cphase[r] \in {"close_context", "close_browser", "stop_pw"}
  /\ LET ph == cphase[r]
         h == ConcTarget(r, ph)
     IN IF h = NoHandle
        THEN /\ cphase' = [cphase EXCEPT ![r] = NextClose(ph)]
             /\ UNCHANGED << live, touched >>
        ELSE \E res \in {"ok", "Error"} :
               /\ touched' = touched \cup
                    {[run |-> r, h |-> h, how |-> "close", open |-> h \in live]}
               /\ live' = IF res = "ok"
                          THEN {x \in live : ~(x.by = h.by /\ x.kind \in Under(h.kind))}
                          ELSE live
               /\ cphase' = [cphase EXCEPT ![r] = AfterClose(res, NextClose(ph))]
  /\ UNCHANGED << again, scenario, runVars, cpc, clocals >>

\* run r's call of run_test is over
ConcExit(r) ==
  /\ cphase[r] = "exit"
  /\ cphase' = [cphase EXCEPT ![r] = "done"]
  /\ UNCHANGED << again, scenario, runVars, cpc, clocals, live, touched >>

NextConc ==
  \E r \in Runs : ConcAcquire(r) \/ ConcUse(r) \/ ConcClose(r) \/ ConcExit(r)

InitConc == Init /\ scenario = RunScenario(1)

SpecConc == InitConc /\ [][NextConc]_vars

\* ----------------------------------------------------------------- C14
\* the objects run r holds in its locals
HeldBy(r) == {Mine(r)[v] : v \in {"pw", "browser", "context", "page"}} \ {NoHandle}

\* C14: with several runs in progress, in every interleaving each call and
\* each close is made by the run that created the object and on an object
\* nobody has closed, and whatever a run in its try block holds is still
\* open: no run's teardown closed it.
C14_RunsOwnTheirHandles ==
  /\ \A t \in touched : t.h.by = t.run /\ t.open
  /\ \A r \in Runs : cphase[r] = "try" => HeldBy(r) \subseteq live
  /\ \A r \in Runs : \A h \in HeldBy(r) : h.by = r

\* run 1 has gone through its teardown and closed its context, while run 2
\* is in its try block and has made calls on its own page, still open
C14_Witness ==
  /\ cphase[1] = "done"
  /\ \E t \in touched : t.run = 1 /\ t.how = "close" /\ t.h.kind = "context"
  /\ cphase[2] = "try"
  /\ \E t \in touched : t.run = 2 /\ t.how = "call" /\ t.h.kind = "page"
  /\ Mine(2).page \in live

\* ----------------------------------------------------------------- C15
\* the results of the calls of a run, in order
Results(t) == [i \in DOMAIN t |-> t[i].r]
SecondRunEnded == runNo = 2 /\ Ended

TryCompleted ==
  /\ \A k \in DOMAIN Script(scenario) : \E i \in DOMAIN trace : trace[i].at = k
  /\ ~TryRaised
\* the three closing calls were made and all returned
TeardownCompleted == Len(closeLog) = 3 /\ ~CloseFailed

\* C21: a run ends with exit status zero exactly when engine, browser,
\* context and page were acquired, the initial navigation, every step and
\* every final assertion returned without raising out of the try block, and
\* the three closing calls returned; an error at any of these points gives
\* a non-zero exit status.
C21_NoFalsePass ==
  Ended =>
    /\ exitStatus = 0 <=> (TryCompleted /\ TeardownCompleted)
    /\ exitStatus = 0 => Len(acquired) >= 4 /\ Cardinality(Held) = 3
    /\ (TryRaised \/ CloseFailed) => exitStatus = 1

\* a run of TC002 has returned normally: every statement was reached, the
\* assertion held and the three closes returned
C21_Witness ==
  /\ Ended /\ exitStatus = 0
  /\ scenario = "TC002"
  /\ \E i \in DOMAIN trace : OpAt(i).k = "expect" /\ trace[i].r = "ok"
  /\ TeardownCompleted

\* ----------------------------------------------------------------- C22
\* the places of the two final assertions in the statements of TC006
WelcomeBackAt ==
  CHOOSE k \in DOMAIN Script("TC006") :
    Script("TC006")[k].k = "expect" /\ Script("TC006")[k].a = "Welcome back"
SignInAt ==
  CHOOSE k \in DOMAIN Script("TC006") :
    /\ Script("TC006")[k].k = "expect"
    /\ Script("TC006")[k].a = "Sign in to your BroLab Fanbase account"
\* the results the statement at place k has given in this run
ResultsAt(k) == {trace[i].r : i \in {j \in DOMAIN trace : trace[j].at = k}}

\* C22: in TC006 the assertion on 'Welcome back' comes directly before the
\* one on 'Sign in to your BroLab Fanbase account', each with a timeout of
\* 30000 ms; the second is evaluated only after the first held, a failure
\* of the first ends the try block without the second being evaluated and
\* the run exits non-zero, and a run exits zero only if both held.
C22_FinalAssertionsConjunctiveOrdered ==
  scenario = "TC006" =>
    /\ SignInAt = WelcomeBackAt + 1
    /\ \A i \in Assertions : EffectiveTimeout(OpAt(i)) = LongAssertTimeout
    /\ ResultsAt(SignInAt) # {} => ResultsAt(WelcomeBackAt) = {"ok"}
    /\ ResultsAt(WelcomeBackAt) \notin {{}, {"ok"}} =>
         /\ ResultsAt(SignInAt) = {}
         /\ phase # "try"
         /\ Ended => exitStatus = 1
    /\ (Ended /\ exitStatus = 0) =>
         ResultsAt(WelcomeBackAt) = {"ok"} /\ ResultsAt(SignInAt) = {"ok"}

\* a run of TC006 whose first final assertion failed has ended, non-zero,
\* and its second final assertion was never evaluated
C22_Witness ==
  /\ scenario = "TC006" /\ Ended
  /\ ResultsAt(WelcomeBackAt) = {"AssertionError"}
  /\ ResultsAt(SignInAt) = {}
  /\ exitStatus = 1
====
